---- MODULE Spec2Model ----
(***************************************************************************)
(* Decoder-input preparation of the captioning transformer variants        *)
(* (captioning/models/transformer_model.py): TransformerModel,             *)
(* M2TransformerModel, EventCondTransformerModel and                       *)
(* KeywordCondTransformerModel.                                            *)
(*                                                                         *)
(* A tensor of shape [N, T] is a sequence of N rows, each a sequence of T  *)
(* entries.  A Python dict is a record whose DOMAIN is the dict's key set. *)
(* Probabilities (random.random(), ss_ratio) are counted in tenths.        *)
(***************************************************************************)
EXTENDS Integers, Sequences, FiniteSets, TLC

(***************************************************************************)
(* Bounds of the model.                                                    *)
(***************************************************************************)
MaxT == 2          \* timesteps t range over 0..MaxT; seqs holds 0..MaxT columns
MaxBeam == 2       \* beam widths range over 1..MaxBeam

(***************************************************************************)
(* Attributes every CaptionModel carries (set by the base class).          *)
(***************************************************************************)
pad_idx == 0
start_idx == 1

Min(a, b) == IF a < b THEN a ELSE b
Max(a, b) == IF a < b THEN b ELSE a

(***************************************************************************)
(* Tensor primitives.                                                      *)
(***************************************************************************)
\* x[:, :k] for k >= 0: the first k columns, or all of them when fewer exist
SliceCols(x, k) == [r \in 1..Len(x) |-> SubSeq(x[r], 1, Min(k, Len(x[r])))]

\* x[:, :-1]: every row without its last entry
DropLastCol(x) == [r \in 1..Len(x) |-> SubSeq(x[r], 1, Len(x[r]) - 1)]

\* (x == v), elementwise
EqScalar(x, v) == [r \in 1..Len(x) |-> [c \in 1..Len(x[r]) |-> x[r][c] = v]]

\* torch.cat((a, b), dim=-1) of two tensors with the same number of rows
CatCols(a, b) == [r \in 1..Len(a) |-> a[r] \o b[r]]

\* torch.tensor([v,] * n).unsqueeze(1): n rows of one column
Column(v, n) == [r \in 1..n |-> <<v>>]

\* captioning.models.utils.repeat_tensor: x repeated n times along a new
\* leading dimension
repeat_tensor(x, n) == [k \in 1..n |-> x]

\* the dict d with d[k] = v set
SetItem(d, k, v) == [f \in DOMAIN d \cup {k} |-> IF f = k THEN v ELSE d[f]]

\* the dict d without key k
DelItem(d, k) == [f \in DOMAIN d \ {k} |-> d[f]]

\* an exception leaving a call
Raise(e) == [exception |-> e]
Raised(r) == "exception" \in DOMAIN r

(***************************************************************************)
(* EventEncoder.forward on one label vector: the vector is divided by its  *)
(* sum and multiplied into the label embedding table.  The table has one   *)
(* column; the result is kept as the exact fraction <<numerator,           *)
(* denominator>> (0/0 for an all-zero label vector).                       *)
(***************************************************************************)
label_embedding == <<2, 4>>

RECURSIVE SumSeq(_)
SumSeq(s) == IF s = <<>> THEN 0 ELSE Head(s) + SumSeq(Tail(s))

EventEncoder_forward_row(v) ==
    <<SumSeq([k \in 1..Len(v) |-> v[k] * label_embedding[k]]), SumSeq(v)>>

EventEncoder_forward(word_idxs) ==
    [r \in 1..Len(word_idxs) |-> EventEncoder_forward_row(word_idxs[r])]

(***************************************************************************)
(* The data a batch is drawn from.  A caption starts with the start token; *)
(* a batch pads its captions with pad_idx to the longest of them.          *)
(***************************************************************************)
Dataset == <<
    [attn_emb |-> <<5, 6>>, attn_emb_len |-> 2, attn_emb_mask |-> <<FALSE, FALSE>>,
     events |-> <<1, 0>>, keywords |-> <<9, 1>>, caption |-> <<1, 2>>],
    [attn_emb |-> <<7, 0>>, attn_emb_len |-> 1, attn_emb_mask |-> <<FALSE, TRUE>>,
     events |-> <<1, 1>>, keywords |-> <<3, 8>>, caption |-> <<1, 2, 2, 2, 2>>] >>

Samples == 1..Len(Dataset)
Batches == Samples \X Samples

PadTo(row, n) == row \o [k \in 1..(n - Len(row)) |-> pad_idx]

BatchCaps(b) ==
    LET longest == Max(Len(Dataset[b[1]].caption), Len(Dataset[b[2]].caption))
    IN  [n \in 1..Len(b) |-> PadTo(Dataset[b[n]].caption, longest)]

\* the tensors of batch b, as the keys of input_dict
BatchDict(b) ==
    [attn_embs     |-> [n \in 1..Len(b) |-> Dataset[b[n]].attn_emb],
     attn_emb_lens |-> [n \in 1..Len(b) |-> Dataset[b[n]].attn_emb_len],
     attn_emb_mask |-> [n \in 1..Len(b) |-> Dataset[b[n]].attn_emb_mask],
     events        |-> [n \in 1..Len(b) |-> Dataset[b[n]].events],
     keywords      |-> [n \in 1..Len(b) |-> Dataset[b[n]].keywords],
     caps          |-> BatchCaps(b)]

Modes == {"train", "inference"}
Draws == {0, 5}            \* random.random() in [0, 1), in tenths
SsRatios == {0, 5, 10}     \* ss_ratio in [0, 1], in tenths
GenVocab == {pad_idx, 2}   \* tokens a generated sequence may hold

\* seqs tensors of n rows and 0..MaxT columns
SeqsSet(n) == UNION {[1..n -> [1..c -> GenVocab]] : c \in 0..MaxT}

\* the step contexts prepare_decoder_input is called with; caps may be absent
StepContexts ==
    LET full == {BatchDict(b) @@ [t |-> t, mode |-> m, ss_ratio |-> p] :
                   b \in Batches, t \in 0..MaxT, m \in Modes, p \in SsRatios}
    IN  full \cup {DelItem(d, "caps") : d \in full}

\* the step contexts prepare_beamsearch_decoder_input is called with
BeamContexts ==
    {BatchDict(b) @@ [t |-> t, sample_idx |-> i, beam_size |-> n] :
       b \in Batches, t \in 0..MaxT, i \in 1..2, n \in 1..MaxBeam}

(***************************************************************************)
(* Model variants and construction.                                        *)
(***************************************************************************)
Variants == {"TransformerModel", "M2TransformerModel",
             "EventCondTransformerModel", "KeywordCondTransformerModel"}
Encoders == {"M2TransformerEncoder", "TransformerEncoder"}

PrimaryFamily == {"TransformerModel", "EventCondTransformerModel",
                  "KeywordCondTransformerModel"}

\* CaptionModel.__init__: stores the encoder on the instance
CaptionModel_init(variant, encoder) == [variant |-> variant, encoder |-> encoder]

\* check_encoder_compatibility with the assert left out
check_encoder_compatibility_skipped(self) == TRUE

\* M2TransformerModel.check_encoder_compatibility: the assert's condition
check_encoder_compatibility(self) == self.encoder = "M2TransformerEncoder"

\* __init__ of each variant: the instance, or the exception construction raises
Construct(variant, encoder) ==
    LET self == CaptionModel_init(variant, encoder)
    IN  IF variant = "M2TransformerModel" /\ ~check_encoder_compatibility(self)
        THEN Raise("AssertionError")
        ELSE self

(***************************************************************************)
(* TransformerModel                                                        *)
(***************************************************************************)
\* the word input with no token dropped
TransformerModel_seq_word_whole(caps) == caps

\* the word input of seq_forward: caps[:, :-1]
TransformerModel_seq_word(caps) == DropLastCol(caps)

\* seq_forward: the record the decoder is invoked with
TransformerModel_seq_forward(input_dict) ==
    LET caps == input_dict.caps
        caps_padding_mask == DropLastCol(EqScalar(caps, pad_idx))
    IN  [word              |-> TransformerModel_seq_word(caps),
         attn_embs         |-> input_dict.attn_embs,
         attn_emb_lens     |-> input_dict.attn_emb_lens,
         caps_padding_mask |-> caps_padding_mask]

\* the branch condition with <= in place of <
TransformerModel_teacher_forcing_leq(input_dict, draw) ==
    input_dict.mode = "train" /\ draw <= input_dict.ss_ratio

\* the branch condition without the test of the mode
TransformerModel_teacher_forcing_any_mode(input_dict, draw) ==
    draw < input_dict.ss_ratio

\* the condition of the scheduled-sampling branch; draw is random.random()
TransformerModel_teacher_forcing(input_dict, draw) ==
    input_dict.mode = "train" /\ draw < input_dict.ss_ratio

\* the first column built from pad_idx instead of start_idx
TransformerModel_start_word_pad(n) == Column(pad_idx, n)

\* the start-token column prepare_decoder_input builds, one row per sample
TransformerModel_start_word(n) == Column(start_idx, n)

\* the ground-truth prefix one column short: caps[:, :t]
TransformerModel_caps_prefix_short(caps, t) == SliceCols(caps, t)

\* the ground-truth prefix of the scheduled-sampling branch
TransformerModel_caps_prefix(caps, t) == SliceCols(caps, t + 1)

\* "determine input word" of prepare_decoder_input
TransformerModel_input_word(input_dict, output, draw) ==
    LET t == input_dict.t
    IN  IF TransformerModel_teacher_forcing(input_dict, draw)
        THEN TransformerModel_caps_prefix(input_dict.caps, t)
        ELSE LET start_word == TransformerModel_start_word(Len(input_dict.attn_embs))
             IN  IF t = 0
                 THEN start_word
                 ELSE CatCols(start_word, SliceCols(output.seqs, t))

\* the mask marking start_idx instead of pad_idx
TransformerModel_padding_mask_start(word) == EqScalar(word, start_idx)

\* the padding mask of a word tensor
TransformerModel_padding_mask(word) == EqScalar(word, pad_idx)

\* input_dict["caps"] raises KeyError when the branch taken reads caps and
\* the step context holds none
TransformerModel_prepare_decoder_input(input_dict, output, draw) ==
    LET word == TransformerModel_input_word(input_dict, output, draw)
    IN  IF /\ TransformerModel_teacher_forcing(input_dict, draw)
           /\ "caps" \notin DOMAIN input_dict
        THEN Raise("KeyError")
        ELSE [attn_embs         |-> input_dict.attn_embs,
              attn_emb_lens     |-> input_dict.attn_emb_lens,
              word              |-> word,
              caps_padding_mask |-> TransformerModel_padding_mask(word)]

\* expansion at every timestep
TransformerModel_expands_always(t) == TRUE

\* "prepare attn embeds" of prepare_beamsearch_decoder_input: whether this
\* call expands the sample's tensors to beam width
TransformerModel_expands(t) == t = 0

\* output_i after "prepare attn embeds"
TransformerModel_beam_cache(input_dict, output_i) ==
    LET i == input_dict.sample_idx
        beam_size == input_dict.beam_size
    IN  IF TransformerModel_expands(input_dict.t)
        THEN SetItem(SetItem(output_i,
                 "attn_embs", repeat_tensor(input_dict.attn_embs[i], beam_size)),
                 "attn_emb_lens", repeat_tensor(input_dict.attn_emb_lens[i], beam_size))
        ELSE output_i

\* the start token appended after the generated tokens instead of before
TransformerModel_beam_word_swapped(input_dict, output_i) ==
    LET start_word == Column(start_idx, input_dict.beam_size)
    IN  IF input_dict.t = 0
        THEN start_word
        ELSE CatCols(output_i.seqs, start_word)

\* "determine input word" of prepare_beamsearch_decoder_input
TransformerModel_beam_word(input_dict, output_i) ==
    LET start_word == Column(start_idx, input_dict.beam_size)
    IN  IF input_dict.t = 0
        THEN start_word
        ELSE CatCols(start_word, output_i.seqs)

\* the call's effect on output_i and the record it returns; reading a key
\* output_i does not hold raises KeyError before anything is returned
TransformerModel_prepare_beamsearch_decoder_input(input_dict, output_i) ==
    LET cached == TransformerModel_beam_cache(input_dict, output_i)
        word == TransformerModel_beam_word(input_dict, cached)
    IN  IF {"attn_embs", "attn_emb_lens"} \subseteq DOMAIN cached
        THEN [output_i |-> cached,
              decoder_input |->
                 [attn_embs         |-> cached.attn_embs,
                  attn_emb_lens     |-> cached.attn_emb_lens,
                  word              |-> word,
                  caps_padding_mask |-> TransformerModel_padding_mask(word)]]
        ELSE [output_i |-> cached, exception |-> "KeyError"]

(***************************************************************************)
(* M2TransformerModel                                                      *)
(***************************************************************************)
M2TransformerModel_seq_forward(input_dict) ==
    LET caps == input_dict.caps
    IN  [word          |-> DropLastCol(caps),
         attn_embs     |-> input_dict.attn_embs,
         attn_emb_mask |-> input_dict.attn_emb_mask]

M2TransformerModel_teacher_forcing(input_dict, draw) ==
    input_dict.mode = "train" /\ draw < input_dict.ss_ratio

M2TransformerModel_input_word(input_dict, output, draw) ==
    LET t == input_dict.t
    IN  IF M2TransformerModel_teacher_forcing(input_dict, draw)
        THEN SliceCols(input_dict.caps, t + 1)
        ELSE LET start_word == Column(start_idx, Len(input_dict.attn_embs))
             IN  IF t = 0
                 THEN start_word
                 ELSE CatCols(start_word, SliceCols(output.seqs, t))

M2TransformerModel_prepare_decoder_input(input_dict, output, draw) ==
    LET word == M2TransformerModel_input_word(input_dict, output, draw)
    IN  IF /\ M2TransformerModel_teacher_forcing(input_dict, draw)
           /\ "caps" \notin DOMAIN input_dict
        THEN Raise("KeyError")
        ELSE [attn_embs     |-> input_dict.attn_embs,
              attn_emb_mask |-> input_dict.attn_emb_mask,
              word          |-> word]

M2TransformerModel_beam_cache(input_dict, output_i) ==
    LET i == input_dict.sample_idx
        beam_size == input_dict.beam_size
    IN  IF input_dict.t = 0
        THEN SetItem(SetItem(output_i,
                 "attn_embs", repeat_tensor(input_dict.attn_embs[i], beam_size)),
                 "attn_emb_mask", repeat_tensor(input_dict.attn_emb_mask[i], beam_size))
        ELSE output_i

M2TransformerModel_beam_word(input_dict, output_i) ==
    LET start_word == Column(start_idx, input_dict.beam_size)
    IN  IF input_dict.t = 0
        THEN start_word
        ELSE CatCols(start_word, output_i.seqs)

M2TransformerModel_prepare_beamsearch_decoder_input(input_dict, output_i) ==
    LET cached == M2TransformerModel_beam_cache(input_dict, output_i)
    IN  IF {"attn_embs", "attn_emb_mask"} \subseteq DOMAIN cached
        THEN [output_i |-> cached,
              decoder_input |->
                 [attn_embs     |-> cached.attn_embs,
                  attn_emb_mask |-> cached.attn_emb_mask,
                  word          |-> M2TransformerModel_beam_word(input_dict, cached)]]
        ELSE [output_i |-> cached, exception |-> "KeyError"]

(***************************************************************************)
(* EventCondTransformerModel: seq_forward is inherited from                *)
(* TransformerModel (the class's own definition is commented out).         *)
(***************************************************************************)
EventCondTransformerModel_prepare_decoder_input(input_dict, output, draw) ==
    LET decoder_input == TransformerModel_prepare_decoder_input(input_dict, output, draw)
    IN  IF Raised(decoder_input)
        THEN decoder_input
        ELSE SetItem(decoder_input, "events", EventEncoder_forward(input_dict.events))

EventCondTransformerModel_prepare_beamsearch_decoder_input(input_dict, output_i) ==
    LET super == TransformerModel_prepare_beamsearch_decoder_input(input_dict, output_i)
        i == input_dict.sample_idx
        beam_size == input_dict.beam_size
        cached == IF input_dict.t = 0
                  THEN SetItem(super.output_i, "events",
                          repeat_tensor(EventEncoder_forward(input_dict.events)[i], beam_size))
                  ELSE super.output_i
    IN  IF Raised(super)
        THEN super
        ELSE IF "events" \in DOMAIN cached
             THEN [output_i |-> cached,
                   decoder_input |-> SetItem(super.decoder_input, "events", cached.events)]
             ELSE [output_i |-> cached, exception |-> "KeyError"]

(***************************************************************************)
(* KeywordCondTransformerModel                                             *)
(***************************************************************************)
KeywordCondTransformerModel_seq_forward(input_dict) ==
    LET caps == input_dict.caps
        caps_padding_mask == DropLastCol(EqScalar(caps, pad_idx))
    IN  [word              |-> DropLastCol(caps),
         attn_embs         |-> input_dict.attn_embs,
         attn_emb_lens     |-> input_dict.attn_emb_lens,
         keywords          |-> input_dict.keywords,
         caps_padding_mask |-> caps_padding_mask]

KeywordCondTransformerModel_prepare_decoder_input(input_dict, output, draw) ==
    LET decoder_input == TransformerModel_prepare_decoder_input(input_dict, output, draw)
    IN  IF Raised(decoder_input)
        THEN decoder_input
        ELSE SetItem(decoder_input, "keywords", input_dict.keywords)

KeywordCondTransformerModel_prepare_beamsearch_decoder_input(input_dict, output_i) ==
    LET super == TransformerModel_prepare_beamsearch_decoder_input(input_dict, output_i)
        i == input_dict.sample_idx
        beam_size == input_dict.beam_size
        cached == IF input_dict.t = 0
                  THEN SetItem(super.output_i, "keywords",
                          repeat_tensor(input_dict.keywords[i], beam_size))
                  ELSE super.output_i
    IN  IF Raised(super)
        THEN super
        ELSE IF "keywords" \in DOMAIN cached
             THEN [output_i |-> cached,
                   decoder_input |-> SetItem(super.decoder_input, "keywords", cached.keywords)]
             ELSE [output_i |-> cached, exception |-> "KeyError"]

(***************************************************************************)
(* Method resolution: the method a call on an instance of a variant runs.  *)
(***************************************************************************)
seq_forward(self, input_dict) ==
    CASE self.variant = "M2TransformerModel" ->
            M2TransformerModel_seq_forward(input_dict)
      [] self.variant = "KeywordCondTransformerModel" ->
            KeywordCondTransformerModel_seq_forward(input_dict)
      [] OTHER -> TransformerModel_seq_forward(input_dict)

prepare_decoder_input(self, input_dict, output, draw) ==
    CASE self.variant = "M2TransformerModel" ->
            M2TransformerModel_prepare_decoder_input(input_dict, output, draw)
      [] self.variant = "EventCondTransformerModel" ->
            EventCondTransformerModel_prepare_decoder_input(input_dict, output, draw)
      [] self.variant = "KeywordCondTransformerModel" ->
            KeywordCondTransformerModel_prepare_decoder_input(input_dict, output, draw)
      [] OTHER -> TransformerModel_prepare_decoder_input(input_dict, output, draw)

prepare_beamsearch_decoder_input(self, input_dict, output_i) ==
    CASE self.variant = "M2TransformerModel" ->
            M2TransformerModel_prepare_beamsearch_decoder_input(input_dict, output_i)
      [] self.variant = "EventCondTransformerModel" ->
            EventCondTransformerModel_prepare_beamsearch_decoder_input(input_dict, output_i)
      [] self.variant = "KeywordCondTransformerModel" ->
            KeywordCondTransformerModel_prepare_beamsearch_decoder_input(input_dict, output_i)
      [] OTHER -> TransformerModel_prepare_beamsearch_decoder_input(input_dict, output_i)

(***************************************************************************)
(* State.                                                                  *)
(***************************************************************************)
VARIABLES
    model,          \* the model instance: its variant and encoder, or NoModel
    phase,          \* "idle", or "beam_search" while the driver searches one sample
    pc,             \* "ready" for the next call, "returned" after a call
    call,           \* the call last made: its name and arguments
    output_i,       \* the beam state of the sample being searched, without seqs
    decoder_input,  \* the decoder-input record the call built
    decoder_log,    \* the records the call invoked the decoder with
    err             \* the exception the call raised, or "none"

vars == <<model, phase, pc, call, output_i, decoder_input, decoder_log, err>>

EmptyDict == [f \in {} |-> 0]
NoModel == [variant |-> "None", encoder |-> "None"]
NoCall == [op |-> "none"]

Init ==
    /\ model = NoModel
    /\ phase = "idle"
    /\ pc = "ready"
    /\ call = NoCall
    /\ output_i = EmptyDict
    /\ decoder_input = EmptyDict
    /\ decoder_log = <<>>
    /\ err = "none"

(***************************************************************************)
(* Construction of a model variant with an encoder.                        *)
(***************************************************************************)
New ==
    /\ pc = "ready" /\ phase = "idle" /\ model = NoModel
    /\ \E variant \in Variants, encoder \in Encoders :
          LET self == Construct(variant, encoder)
          IN  /\ model' = IF Raised(self) THEN NoModel ELSE self
              /\ err' = IF Raised(self) THEN self.exception ELSE "none"
              /\ call' = [op |-> "__init__", variant |-> variant,
                          encoder |-> encoder]
    /\ pc' = "returned"
    /\ UNCHANGED <<phase, output_i, decoder_input, decoder_log>>

(***************************************************************************)
(* model.seq_forward(input_dict): builds the record and invokes the        *)
(* decoder with it.                                                        *)
(***************************************************************************)
SeqForward ==
    /\ pc = "ready" /\ phase = "idle" /\ model # NoModel
    /\ \E b \in Batches :
          LET input_dict == BatchDict(b)
              record == seq_forward(model, input_dict)
          IN  /\ decoder_input' = record
              /\ decoder_log' = <<record>>
              /\ call' = [op |-> "seq_forward", input_dict |-> input_dict]
    /\ err' = "none"
    /\ pc' = "returned"
    /\ UNCHANGED <<model, phase, output_i>>

(***************************************************************************)
(* model.prepare_decoder_input(input_dict, output); draw is the value      *)
(* random.random() gives if it is called.                                  *)
(***************************************************************************)
PrepareDecoderInput ==
    /\ pc = "ready" /\ phase = "idle" /\ model # NoModel
    /\ \E input_dict \in StepContexts, draw \in Draws :
          \E seqs \in SeqsSet(Len(input_dict.attn_embs)) :
             LET output == [seqs |-> seqs]
                 record == prepare_decoder_input(model, input_dict, output, draw)
             IN  /\ decoder_input' = IF Raised(record) THEN EmptyDict ELSE record
                 /\ err' = IF Raised(record) THEN record.exception ELSE "none"
                 /\ call' = [op |-> "prepare_decoder_input",
                             input_dict |-> input_dict,
                             output |-> output, draw |-> draw]
    /\ decoder_log' = <<>>
    /\ pc' = "returned"
    /\ UNCHANGED <<model, phase, output_i>>

(***************************************************************************)
(* The driver starts the beam search of one sample with a fresh beam       *)
(* state, and ends it.                                                     *)
(***************************************************************************)
BeginBeamSearch ==
    /\ pc = "ready" /\ phase = "idle" /\ model # NoModel
    /\ phase' = "beam_search"
    /\ output_i' = EmptyDict
    /\ UNCHANGED <<model, pc, call, decoder_input, decoder_log, err>>

EndBeamSearch ==
    /\ pc = "ready" /\ phase = "beam_search"
    /\ phase' = "idle"
    /\ output_i' = EmptyDict
    /\ UNCHANGED <<model, pc, call, decoder_input, decoder_log, err>>

(***************************************************************************)
(* model.prepare_beamsearch_decoder_input(input_dict, output_i).  The      *)
(* driver rewrites output_i["seqs"] between calls, so seqs is an argument  *)
(* of each call; the other keys of output_i persist.                       *)
(***************************************************************************)
PrepareBeamsearchDecoderInput ==
    /\ pc = "ready" /\ phase = "beam_search"
    /\ \E input_dict \in BeamContexts :
          \E seqs \in SeqsSet(input_dict.beam_size) :
             LET r == prepare_beamsearch_decoder_input(
                          model, input_dict, SetItem(output_i, "seqs", seqs))
             IN  /\ output_i' = DelItem(r.output_i, "seqs")
                 /\ decoder_input' = IF Raised(r) THEN EmptyDict
                                     ELSE r.decoder_input
                 /\ err' = IF Raised(r) THEN r.exception ELSE "none"
                 /\ call' = [op |-> "prepare_beamsearch_decoder_input",
                             input_dict |-> input_dict, seqs |-> seqs]
    /\ decoder_log' = <<>>
    /\ pc' = "returned"
    /\ UNCHANGED <<model, phase>>

(***************************************************************************)
(* The caller takes what the call returned (or the exception).             *)
(***************************************************************************)
Return ==
    /\ pc = "returned"
    /\ pc' = "ready"
    /\ call' = NoCall
    /\ decoder_input' = EmptyDict
    /\ decoder_log' = <<>>
    /\ err' = "none"
    /\ UNCHANGED <<model, phase, output_i>>

Next ==
    \/ New
    \/ SeqForward
    \/ PrepareDecoderInput
    \/ BeginBeamSearch
    \/ PrepareBeamsearchDecoderInput
    \/ EndBeamSearch
    \/ Return

Spec == Init /\ [][Next]_vars

(***************************************************************************)
(* Properties.                                                             *)
(***************************************************************************)
\* the call op has returned normally
Returned(op) == pc = "returned" /\ call.op = op /\ err = "none"

\* the number of columns of a tensor with at least one row
Cols(x) == Len(x[1])

\* a tensor of n rows and c columns
HasShape(x, n, c) == Len(x) = n /\ \A r \in 1..n : Len(x[r]) = c

\* every entry of column 1 is the start token
StartsWithStart(x) == \A r \in 1..Len(x) : Len(x[r]) >= 1 /\ x[r][1] = start_idx

\* the keys each variant caches in the beam state
CachedKeys(variant) ==
    CASE variant = "M2TransformerModel" -> {"attn_embs", "attn_emb_mask"}
      [] variant = "EventCondTransformerModel" ->
            {"attn_embs", "attn_emb_lens", "events"}
      [] variant = "KeywordCondTransformerModel" ->
            {"attn_embs", "attn_emb_lens", "keywords"}
      [] OTHER -> {"attn_embs", "attn_emb_lens"}

\* the per-sample tensor behind a cached key: the encoded events for
\* "events", the input tensor itself for the others
SampleTensors(input_dict, k) ==
    IF k = "events" THEN EventEncoder_forward(input_dict.events) ELSE input_dict[k]

(***************************************************************************)
(* C1: in every prepare_beamsearch_decoder_input call, of every variant:   *)
(* at t = 0 the call writes the cached tensors of the beam state, each     *)
(* equal to sample i's tensor repeated beam_size times, and returns them;  *)
(* at t > 0 the call leaves the beam state as it was and, once the t = 0   *)
(* call has filled it, returns exactly the cached values.                  *)
(***************************************************************************)
C1_CacheWrittenOnlyAtStepZero ==
    [][(pc = "ready" /\ call'.op = "prepare_beamsearch_decoder_input") =>
          LET d == call'.input_dict
              keys == CachedKeys(model.variant)
          IN  IF d.t = 0
              THEN /\ err' = "none"
                   /\ DOMAIN output_i' = keys
                   /\ \A k \in keys :
                         /\ output_i'[k] = repeat_tensor(
                                SampleTensors(d, k)[d.sample_idx], d.beam_size)
                         /\ decoder_input'[k] = output_i'[k]
              ELSE /\ output_i' = output_i
                   /\ keys \subseteq DOMAIN output_i =>
                         /\ err' = "none"
                         /\ \A k \in keys : decoder_input'[k] = output_i[k]
      ]_vars

\* a call at t > 0 has returned the cached tensors although its own sample,
\* expanded, would differ from them
C1_Witness ==
    /\ Returned("prepare_beamsearch_decoder_input")
    /\ call.input_dict.t > 0
    /\ decoder_input.attn_embs = output_i.attn_embs
    /\ output_i.attn_embs # repeat_tensor(
           call.input_dict.attn_embs[call.input_dict.sample_idx],
           call.input_dict.beam_size)

(***************************************************************************)
(* C2 as stated: at t = 0 the word tensor of                               *)
(* prepare_beamsearch_decoder_input is the start token in shape [B, 1]; at *)
(* t > 0 it is the start token followed by seqs[:, :t], however many       *)
(* columns seqs holds.                                                     *)
(***************************************************************************)
C2_WordIsStartThenFirstT ==
    Returned("prepare_beamsearch_decoder_input") =>
       LET d == call.input_dict
           start_word == Column(start_idx, d.beam_size)
       IN  decoder_input.word =
              IF d.t = 0 THEN start_word
              ELSE CatCols(start_word, SliceCols(call.seqs, d.t))

(***************************************************************************)
(* C2 amended: at t = 0 the word tensor is the start token in shape        *)
(* [B, 1]; at t > 0 it is the start token followed by every column of      *)
(* seqs, which is seqs[:, :t] whenever seqs holds at most t columns.       *)
(***************************************************************************)
C2_WordIsStartThenAllOfSeqs ==
    Returned("prepare_beamsearch_decoder_input") =>
       LET d == call.input_dict
           start_word == Column(start_idx, d.beam_size)
       IN  /\ d.t = 0 => /\ decoder_input.word = start_word
                         /\ HasShape(decoder_input.word, d.beam_size, 1)
           /\ d.t > 0 => /\ decoder_input.word = CatCols(start_word, call.seqs)
                         /\ HasShape(decoder_input.word, d.beam_size,
                                     1 + Cols(call.seqs))
           /\ (d.t > 0 /\ Cols(call.seqs) <= d.t) =>
                 decoder_input.word = CatCols(start_word, SliceCols(call.seqs, d.t))

\* a call at t > 0 with seqs of more than t columns, all of them in the word
C2_Witness ==
    /\ Returned("prepare_beamsearch_decoder_input")
    /\ call.input_dict.t > 0
    /\ Cols(call.seqs) > call.input_dict.t
    /\ Cols(decoder_input.word) = 1 + Cols(call.seqs)

(***************************************************************************)
(* C3: in every prepare_decoder_input call, of every variant: when the     *)
(* mode is "train" and the draw of this call is below ss_ratio, the word   *)
(* input is caps[:, :t+1]; in every other case it is the start token       *)
(* followed by seqs[:, :t], and the start token alone at t = 0.            *)
(***************************************************************************)
C3_ScheduledSamplingDecision ==
    (pc = "returned" /\ call.op = "prepare_decoder_input") =>
       LET d == call.input_dict
           n == Len(d.attn_embs)
       IN  IF d.mode = "train" /\ call.draw < d.ss_ratio
           THEN "caps" \in DOMAIN d =>
                   /\ err = "none"
                   /\ decoder_input.word = SliceCols(d.caps, d.t + 1)
           ELSE /\ err = "none"
                /\ decoder_input.word =
                      IF d.t = 0 THEN Column(start_idx, n)
                      ELSE CatCols(Column(start_idx, n),
                                   SliceCols(call.output.seqs, d.t))

\* a training call at t > 0 whose draw equals ss_ratio: not below it, so the
\* generated tokens are used
C3_Witness ==
    /\ Returned("prepare_decoder_input")
    /\ call.input_dict.mode = "train"
    /\ call.input_dict.t > 0
    /\ call.draw = call.input_dict.ss_ratio
    /\ "caps" \in DOMAIN call.input_dict
    /\ decoder_input.word # SliceCols(call.input_dict.caps, call.input_dict.t + 1)

(***************************************************************************)
(* C4: when the mode is not "train", the record prepare_decoder_input      *)
(* returns does not depend on caps: the call made with any other caps, or  *)
(* with none, and with any draw, returns the same record.                  *)
(***************************************************************************)
CapsVariants(d) ==
    {DelItem(d, "caps")} \cup {SetItem(d, "caps", BatchCaps(b)) : b \in Batches}

C4_InferenceIgnoresCaps ==
    (pc = "returned" /\ call.op = "prepare_decoder_input"
        /\ call.input_dict.mode # "train") =>
       /\ err = "none"
       /\ \A d2 \in CapsVariants(call.input_dict), draw2 \in Draws :
             prepare_decoder_input(model, d2, call.output, draw2) = decoder_input

\* an inference call with caps absent and a draw below ss_ratio
C4_Witness ==
    /\ Returned("prepare_decoder_input")
    /\ call.input_dict.mode = "inference"
    /\ "caps" \notin DOMAIN call.input_dict
    /\ call.draw < call.input_dict.ss_ratio
    /\ call.input_dict.t > 0

(***************************************************************************)
(* C5: in TransformerModel and the event and keyword variants, the record  *)
(* built by seq_forward, prepare_decoder_input and                         *)
(* prepare_beamsearch_decoder_input holds a caps_padding_mask of the shape *)
(* of its word tensor, TRUE exactly where the word tensor holds pad_idx.   *)
(***************************************************************************)
RecordOps == {"seq_forward", "prepare_decoder_input",
              "prepare_beamsearch_decoder_input"}

MaskMarksPad(mask, word) ==
    /\ Len(mask) = Len(word)
    /\ \A r \in 1..Len(word) :
          /\ Len(mask[r]) = Len(word[r])
          /\ \A c \in 1..Len(word[r]) : mask[r][c] = (word[r][c] = pad_idx)

C5_PaddingMaskMarksPad ==
    (pc = "returned" /\ call.op \in RecordOps /\ err = "none"
        /\ model.variant \in PrimaryFamily) =>
       /\ "caps_padding_mask" \in DOMAIN decoder_input
       /\ MaskMarksPad(decoder_input.caps_padding_mask, decoder_input.word)
       /\ \A k \in 1..Len(decoder_log) :
             MaskMarksPad(decoder_log[k].caps_padding_mask, decoder_log[k].word)

\* a record of prepare_decoder_input whose word tensor holds both pad_idx
\* and other tokens
C5_Witness ==
    /\ Returned("prepare_decoder_input")
    /\ model.variant \in PrimaryFamily
    /\ \E r \in 1..Len(decoder_input.word) :
          \E c1, c2 \in 1..Len(decoder_input.word[r]) :
             /\ decoder_input.word[r][c1] = pad_idx
             /\ decoder_input.word[r][c2] # pad_idx
             /\ decoder_input.caps_padding_mask[r][c1]
             /\ ~decoder_input.caps_padding_mask[r][c2]

(***************************************************************************)
(* C6: seq_forward, of every variant, invokes the decoder exactly once,    *)
(* with a word input that is caps without its last column: for caps of     *)
(* length L, length L - 1 and the first L - 1 tokens of every row in order.*)
(***************************************************************************)
C6_SeqForwardDropsLastToken ==
    (pc = "returned" /\ call.op = "seq_forward") =>
       LET caps == call.input_dict.caps
       IN  /\ err = "none"
           /\ Len(decoder_log) = 1
           /\ decoder_log[1] = decoder_input
           /\ HasShape(decoder_log[1].word, Len(caps), Cols(caps) - 1)
           /\ \A r \in 1..Len(caps) : \A c \in 1..(Cols(caps) - 1) :
                 decoder_log[1].word[r][c] = caps[r][c]

\* N = 2 captions of length 5 give a word input of length 4
C6_Witness ==
    /\ Returned("seq_forward")
    /\ HasShape(call.input_dict.caps, 2, 5)
    /\ HasShape(decoder_log[1].word, 2, 4)

(***************************************************************************)
(* C7: constructing M2TransformerModel with an encoder that is not an      *)
(* M2TransformerEncoder raises (the assert of check_encoder_compatibility  *)
(* fails: the configuration error) and leaves no instance, so every        *)
(* M2TransformerModel instance, and every one a call is made on, has an    *)
(* M2TransformerEncoder.                                                   *)
(***************************************************************************)
C7_M2NeedsM2Encoder ==
    /\ (pc = "returned" /\ call.op = "__init__"
           /\ call.variant = "M2TransformerModel"
           /\ call.encoder # "M2TransformerEncoder") =>
          (err = "AssertionError" /\ model = NoModel)
    /\ model.variant = "M2TransformerModel" =>
          model.encoder = "M2TransformerEncoder"
    /\ call.op \in RecordOps => model # NoModel

\* the construction with a mismatched encoder has raised
C7_Witness ==
    /\ pc = "returned" /\ call.op = "__init__"
    /\ call.variant = "M2TransformerModel"
    /\ call.encoder = "TransformerEncoder"
    /\ err = "AssertionError"

(***************************************************************************)
(* C8: in every record prepare_decoder_input and                           *)
(* prepare_beamsearch_decoder_input return, whatever t, the mode and the   *)
(* outcome of the draw, every row of the word tensor starts with the start *)
(* token; at t = 0 the word tensor is one column of start tokens, one row  *)
(* per sample or beam.                                                     *)
(***************************************************************************)
C8_WordStartsWithStartToken ==
    /\ Returned("prepare_decoder_input") =>
          /\ StartsWithStart(decoder_input.word)
          /\ call.input_dict.t = 0 =>
                decoder_input.word =
                   Column(start_idx, Len(call.input_dict.attn_embs))
    /\ Returned("prepare_beamsearch_decoder_input") =>
          /\ StartsWithStart(decoder_input.word)
          /\ call.input_dict.t = 0 =>
                decoder_input.word = Column(start_idx, call.input_dict.beam_size)

\* a call at t > 0 outside the scheduled-sampling branch, whose first column
\* is built by the call itself
C8_Witness ==
    /\ Returned("prepare_decoder_input")
    /\ call.input_dict.t > 0
    /\ call.input_dict.mode = "inference"
    /\ Cols(decoder_input.word) > 1
    /\ StartsWithStart(decoder_input.word)

(***************************************************************************)
(* C9 as stated: every record the event-conditioned variant builds in      *)
(* seq_forward, prepare_decoder_input and prepare_beamsearch_decoder_input *)
(* holds an events field, and every record the keyword-conditioned variant *)
(* builds holds a keywords field equal to the input keyword tensor (of the *)
(* batch, or of sample i repeated beam_size times as cached at t = 0),     *)
(* besides the fields of TransformerModel.                                 *)
(***************************************************************************)
ParentKeys == {"word", "attn_embs", "attn_emb_lens", "caps_padding_mask"}

C9_ConditioningTensorInEveryRecord ==
    (pc = "returned" /\ call.op \in RecordOps /\ err = "none") =>
       /\ model.variant = "EventCondTransformerModel" =>
             /\ ParentKeys \subseteq DOMAIN decoder_input
             /\ "events" \in DOMAIN decoder_input
       /\ model.variant = "KeywordCondTransformerModel" =>
             /\ ParentKeys \subseteq DOMAIN decoder_input
             /\ "keywords" \in DOMAIN decoder_input
             /\ call.op \in {"seq_forward", "prepare_decoder_input"} =>
                   decoder_input.keywords = call.input_dict.keywords
             /\ call.op = "prepare_beamsearch_decoder_input" =>
                   /\ decoder_input.keywords = output_i.keywords
                   /\ call.input_dict.t = 0 =>
                         decoder_input.keywords = repeat_tensor(
                            call.input_dict.keywords[call.input_dict.sample_idx],
                            call.input_dict.beam_size)

(***************************************************************************)
(* C10: in prepare_decoder_input, when caps holds at least t + 1 columns   *)
(* and seqs at least t, the word tensor has shape [N, t + 1] in either     *)
(* branch of the scheduled-sampling decision.                              *)
(***************************************************************************)
C10_WordHasTPlusOneColumns ==
    (pc = "returned" /\ call.op = "prepare_decoder_input"
        /\ "caps" \in DOMAIN call.input_dict
        /\ Cols(call.input_dict.caps) >= call.input_dict.t + 1
        /\ Cols(call.output.seqs) >= call.input_dict.t) =>
       LET d == call.input_dict
           n == Len(d.attn_embs)
       IN  /\ err = "none"
           /\ HasShape(decoder_input.word, n, d.t + 1)
           /\ \A m \in Modes, p \in SsRatios, draw2 \in Draws :
                 HasShape(prepare_decoder_input(
                             model, [d EXCEPT !.mode = m, !.ss_ratio = p],
                             call.output, draw2).word,
                          n, d.t + 1)

\* the scheduled-sampling branch taken at the largest timestep
C10_Witness ==
    /\ Returned("prepare_decoder_input")
    /\ call.input_dict.mode = "train"
    /\ call.draw < call.input_dict.ss_ratio
    /\ call.input_dict.t = MaxT
    /\ "caps" \in DOMAIN call.input_dict
    /\ Cols(call.input_dict.caps) >= MaxT + 1
    /\ HasShape(decoder_input.word, 2, MaxT + 1)
====
